---- MODULE Spec2Model ----
(***************************************************************************)
(* http-timeout-wrapper: the CircuitBreaker state machine and the retry    *)
(* loop of HttpWrapper.request, as a state machine.                        *)
(*                                                                         *)
(* JavaScript runs one callback at a time, so every action below is the    *)
(* code that runs between two suspension points (await fetch, await sleep) *)
(* of one request() call; several calls on the same HttpWrapper interleave *)
(* at those points.  Time is the value of Date.now(), in abstract ticks.   *)
(***************************************************************************)
EXTENDS Integers, FiniteSets, Sequences, TLC

(* ---------------------------- bounds ----------------------------------- *)
NumSlots     == 2    \* request() calls that can be in flight together
MaxRequests  == 4    \* request() calls started in one behaviour
MaxTime      == 2    \* last value of the clock
MaxThreshold == 2    \* largest failureThreshold / successThreshold tried
MaxRetries   == 2    \* largest maxRetries tried
BaseDelay    == 1    \* the baseDelay tried, in ticks
MaxDelay     == 2    \* the maxDelay tried, in ticks
OpenTimeout  == 2    \* the circuitBreaker.timeout tried, in ticks
MaxAttempt   == 4    \* largest attempt passed to calculateDelay alone
MaxBase      == 3    \* largest baseDelay passed to calculateDelay alone
MaxCap       == 9    \* largest maxDelay passed to calculateDelay alone

Slots == 1..NumSlots

(* the value of lastFailureTime before any failure (JavaScript null) *)
NULL == -1

(* ---------------------- DEFAULT_CONFIG and errors ---------------------- *)
retryableStatuses == {408, 429, 500, 502, 503, 504}
retryableErrors   == {"ECONNRESET", "ECONNREFUSED", "ETIMEDOUT", "ENOTFOUND"}

(* What fetch() can do: resolve with a response (ok or not), reject with a *)
(* network error carrying a code, or reject with AbortError when the       *)
(* timeout's controller aborts it.                                         *)
FetchOutcomes ==
    { [kind |-> "response", status |-> 200, code |-> ""],
      [kind |-> "response", status |-> 503, code |-> ""],
      [kind |-> "response", status |-> 404, code |-> ""],
      [kind |-> "abort",    status |-> 0,   code |-> ""] }

NoError == [status |-> 0, code |-> "", name |-> "none"]

(* the error CircuitBreaker.execute throws while the circuit is open *)
CircuitBreakerOpenError ==
    [status |-> 0, code |-> "", name |-> "CircuitBreakerOpenError"]

(* fetchWithTimeout: a response that is ok is returned (NoError here), a   *)
(* response that is not ok is thrown as an Error carrying its status, an   *)
(* AbortError is rethrown as a TimeoutError, anything else is rethrown.    *)
fetchWithTimeout(raw) ==
    IF raw.kind = "response"
    THEN IF raw.status >= 200 /\ raw.status <= 299
         THEN NoError
         ELSE [status |-> raw.status, code |-> "", name |-> "Error"]
    ELSE IF raw.kind = "abort"
         THEN [status |-> 0, code |-> "", name |-> "TimeoutError"]
         ELSE [status |-> 0, code |-> raw.code, name |-> "Error"]

isRetryableError_noAbort(error, statuses, errors) ==
    IF error.status # 0 /\ error.status \in statuses THEN TRUE
    ELSE IF error.code # "" /\ error.code \in errors THEN TRUE
    ELSE IF error.name = "TimeoutError" THEN TRUE
    ELSE FALSE

(* isRetryableError: error.status and error.code are tested for truthiness *)
(* first, so an absent status (0 here) or code ("" here) matches nothing.  *)
isRetryableError(error, statuses, errors) ==
    IF error.status # 0 /\ error.status \in statuses THEN TRUE
    ELSE IF error.code # "" /\ error.code \in errors THEN TRUE
    ELSE IF error.name = "AbortError" \/ error.name = "TimeoutError" THEN TRUE
    ELSE FALSE

RECURSIVE Pow2(_)
Pow2(n) == IF n = 0 THEN 1 ELSE 2 * Pow2(n - 1)

Min(a, b) == IF a <= b THEN a ELSE b

calculateDelay_uncapped(attempt, baseDelay, maxDelay, withJitter) ==
    LET exponentialDelay == baseDelay * Pow2(attempt)
    IN  IF ~withJitter
        THEN {exponentialDelay}
        ELSE IF exponentialDelay <= 0 THEN {0} ELSE 0..(exponentialDelay - 1)

calculateDelay_addsJitter(attempt, baseDelay, maxDelay, withJitter) ==
    LET exponentialDelay == Min(baseDelay * Pow2(attempt), maxDelay)
    IN  IF ~withJitter
        THEN {exponentialDelay}
        ELSE IF exponentialDelay <= 0 THEN {0}
             ELSE {exponentialDelay + j : j \in 0..(exponentialDelay - 1)}

(* calculateDelay: the set of values it can return.  Without jitter it is  *)
(* the capped exponential; with jitter it is floor(random * exponential)   *)
(* for a random in [0, 1).                                                 *)
calculateDelay(attempt, baseDelay, maxDelay, withJitter) ==
    LET exponentialDelay == Min(baseDelay * Pow2(attempt), maxDelay)
    IN  IF ~withJitter
        THEN {exponentialDelay}
        ELSE IF exponentialDelay <= 0 THEN {0} ELSE 0..(exponentialDelay - 1)

(* ------------------------------ state ---------------------------------- *)
VARIABLES
    config,           \* HttpWrapper.config (the retry settings)
    cbConfig,         \* CircuitBreaker.config
    state,            \* CircuitBreaker.state
    failureCount,     \* CircuitBreaker.failureCount
    successCount,     \* CircuitBreaker.successCount
    lastFailureTime,  \* CircuitBreaker.lastFailureTime
    now,              \* Date.now()
    calls,            \* the request() calls, one per slot
    requests,         \* request() calls started so far
    onCircuitOpenCalls,   \* times this.config.onCircuitOpen?.() was run
    onCircuitCloseCalls,  \* times this.config.onCircuitClose?.() was run
    failRun,          \* failing operations completed one after another since
                      \* construction, or NULL once anything else happened
    openedAt,         \* Date.now() at the last transition to open, or NULL
    snapshot,         \* what the last getCircuitBreakerState() returned
    snapshotOf,       \* the breaker's fields when it returned it
    pure,             \* a call of an exported pure function: its arguments
                      \* and, once applied, its result
    lastMerge,        \* the last merge into the breaker's config: the
                      \* circuitBreaker override given (over) and the config
                      \* it was merged into (before)
    onCircuitClose    \* what the onCircuitClose hook of the breaker's config
                      \* does when called: "returns" or "throws"

vars == << config, cbConfig, state, failureCount, successCount,
           lastFailureTime, now, calls, requests, onCircuitOpenCalls,
           onCircuitCloseCalls, failRun, openedAt, snapshot, snapshotOf,
           pure, lastMerge, onCircuitClose >>

(* the variables that the request() calls and reset() leave alone *)
observers == << snapshot, snapshotOf, pure, lastMerge, onCircuitClose >>

(* CircuitBreaker.getState(): a fresh object holding the four fields *)
getState ==
    [ state           |-> state,
      failureCount    |-> failureCount,
      successCount    |-> successCount,
      lastFailureTime |-> lastFailureTime ]

(* the breaker as its constructor leaves it *)
CircuitBreakerNew ==
    [ state           |-> "closed",
      failureCount    |-> 0,
      successCount    |-> 0,
      lastFailureTime |-> NULL ]

IdleCall ==
    [ pc             |-> "idle",     \* idle, fetch, sleep, done
      attempt        |-> 0,
      lastError      |-> NoError,
      eff            |-> [maxRetries |-> 0, baseDelay |-> 0, maxDelay |-> 0,
                          jitter |-> FALSE],
      wakeAt         |-> 0,
      outcome        |-> "none",     \* none, response, error, circuit-open
      transportCalls |-> 0,
      onRetryCalls   |-> 0,
      sleeps         |-> 0,
      gate           |-> "none",     \* what execute's gate decided
      probe          |-> FALSE,      \* started while the breaker was half-open
      bypassed       |-> FALSE,      \* execute took the disabled branch
      cbAtStart      |-> [enabled |-> TRUE, failureThreshold |-> 1,
                          successThreshold |-> 1, timeout |-> 0],
                                     \* CircuitBreaker.config at the call
      thrown         |-> NoError,    \* what the caller's promise rejects with
      cancelled      |-> FALSE,      \* the caller aborted options.signal
      onRetryLog     |-> << >>,      \* the arguments of each onRetry call
      events         |-> << >> ]     \* what the call did, in order: attempt n
                                     \* started, onRetry(n) called, the sleep
                                     \* after attempt n begun

InFlight(c) == calls[c].pc \in {"fetch", "sleep"}

NoneInFlight == \A c \in Slots : ~InFlight(c)

(* no getCircuitBreakerState() call was made yet *)
NoSnapshot == [taken |-> FALSE, ref |-> FALSE, value |-> CircuitBreakerNew]

(* no pure function is being called *)
NoPure == [fn |-> "none"]

(* an object without properties *)
EmptyObject == [k \in {} |-> TRUE]

(* no circuitBreaker override was merged *)
NoMerge == [before |-> EmptyObject, over |-> EmptyObject]

(* a new CircuitBreaker, no call made, the clock at 0 *)
Fresh ==
    /\ state = "closed"
    /\ failureCount = 0
    /\ successCount = 0
    /\ lastFailureTime = NULL
    /\ now = 0
    /\ calls = [c \in Slots |-> IdleCall]
    /\ requests = 0
    /\ onCircuitOpenCalls = 0
    /\ onCircuitCloseCalls = 0
    /\ failRun = 0
    /\ openedAt = NULL

(* new HttpWrapper(config) with a config that gives every retry setting    *)
(* and every key of circuitBreaker: the merged config, a new breaker       *)
HttpWrapperNew ==
    /\ config \in [ maxRetries : 0..MaxRetries, baseDelay : {BaseDelay},
                    maxDelay : {MaxDelay}, jitter : BOOLEAN ]
    /\ cbConfig \in [ enabled : BOOLEAN,
                      failureThreshold : 1..MaxThreshold,
                      successThreshold : 1..MaxThreshold,
                      timeout : {OpenTimeout} ]
    /\ Fresh

Init ==
    /\ HttpWrapperNew
    /\ snapshot = NoSnapshot
    /\ snapshotOf = CircuitBreakerNew
    /\ pure = NoPure
    /\ lastMerge = NoMerge
    /\ onCircuitClose = "returns"


(* ------------------------- CircuitBreaker ------------------------------ *)
(* null - x and x - null coerce null to 0 *)
ToNumber(x) == IF x = NULL THEN 0 ELSE x

(* execute's early return: a disabled breaker only runs the operation *)
bypass_never(cfg) == FALSE

bypass(cfg) == ~cfg.enabled

onSuccess_clearsTime(b, cfg) ==
    LET sc == b.successCount + 1
    IN  IF b.state = "half-open" /\ sc >= cfg.successThreshold
        THEN [ state |-> "closed", failureCount |-> 0, successCount |-> 0,
               lastFailureTime |-> NULL, closeHook |-> 1 ]
        ELSE [ state |-> b.state, failureCount |-> 0, successCount |-> sc,
               lastFailureTime |-> NULL, closeHook |-> 0 ]

onSuccess_closesFromOpen(b, cfg) ==
    LET sc == b.successCount + 1
    IN  IF b.state # "closed" /\ sc >= cfg.successThreshold
        THEN [ state |-> "closed", failureCount |-> 0, successCount |-> 0,
               lastFailureTime |-> b.lastFailureTime, closeHook |-> 1 ]
        ELSE [ state |-> b.state, failureCount |-> 0, successCount |-> sc,
               lastFailureTime |-> b.lastFailureTime, closeHook |-> 0 ]

onSuccess_strict(b, cfg) ==
    LET sc == b.successCount + 1
    IN  IF b.state = "half-open" /\ sc > cfg.successThreshold
        THEN [ state |-> "closed", failureCount |-> 0, successCount |-> 0,
               lastFailureTime |-> b.lastFailureTime, closeHook |-> 1 ]
        ELSE [ state |-> b.state, failureCount |-> 0, successCount |-> sc,
               lastFailureTime |-> b.lastFailureTime, closeHook |-> 0 ]

onSuccess_keepFailures(b, cfg) ==
    LET sc == b.successCount + 1
    IN  IF b.state = "half-open" /\ sc >= cfg.successThreshold
        THEN [ state |-> "closed", failureCount |-> b.failureCount,
               successCount |-> 0,
               lastFailureTime |-> b.lastFailureTime, closeHook |-> 1 ]
        ELSE [ state |-> b.state, failureCount |-> b.failureCount,
               successCount |-> sc,
               lastFailureTime |-> b.lastFailureTime, closeHook |-> 0 ]

(* CircuitBreaker.onSuccess on the breaker b; closeHook counts the         *)
(* invocations of config.onCircuitClose it makes.                          *)
onSuccess(b, cfg) ==
    LET sc == b.successCount + 1
    IN  IF b.state = "half-open" /\ sc >= cfg.successThreshold
        THEN [ state |-> "closed", failureCount |-> 0, successCount |-> 0,
               lastFailureTime |-> b.lastFailureTime, closeHook |-> 1 ]
        ELSE [ state |-> b.state, failureCount |-> 0, successCount |-> sc,
               lastFailureTime |-> b.lastFailureTime, closeHook |-> 0 ]

onFailure_twice(b, cfg, t) ==
    LET fc == b.failureCount + 2
    IN  IF fc >= cfg.failureThreshold /\ b.state # "open"
        THEN [ state |-> "open", failureCount |-> fc, successCount |-> 0,
               lastFailureTime |-> t, openHook |-> 1 ]
        ELSE [ state |-> b.state, failureCount |-> fc, successCount |-> 0,
               lastFailureTime |-> t, openHook |-> 0 ]

onFailure_offByOne(b, cfg, t) ==
    LET fc == b.failureCount + 1
    IN  IF fc > cfg.failureThreshold /\ b.state # "open"
        THEN [ state |-> "open", failureCount |-> fc, successCount |-> 0,
               lastFailureTime |-> t, openHook |-> 1 ]
        ELSE [ state |-> b.state, failureCount |-> fc, successCount |-> 0,
               lastFailureTime |-> t, openHook |-> 0 ]

onFailure_refire(b, cfg, t) ==
    LET fc == b.failureCount + 1
    IN  IF fc >= cfg.failureThreshold
        THEN [ state |-> "open", failureCount |-> fc, successCount |-> 0,
               lastFailureTime |-> t, openHook |-> 1 ]
        ELSE [ state |-> b.state, failureCount |-> fc, successCount |-> 0,
               lastFailureTime |-> t, openHook |-> 0 ]

(* CircuitBreaker.onFailure on the breaker b at time t; openHook counts    *)
(* the invocations of config.onCircuitOpen it makes.                       *)
onFailure(b, cfg, t) ==
    LET fc == b.failureCount + 1
    IN  IF fc >= cfg.failureThreshold /\ b.state # "open"
        THEN [ state |-> "open", failureCount |-> fc, successCount |-> 0,
               lastFailureTime |-> t, openHook |-> 1 ]
        ELSE [ state |-> b.state, failureCount |-> fc, successCount |-> 0,
               lastFailureTime |-> t, openHook |-> 0 ]

Gate_inverted(b, cfg, t) ==
    IF bypass(cfg) THEN "run"
    ELSE IF b.state = "open"
         THEN IF t - ToNumber(b.lastFailureTime) <= cfg.timeout
              THEN "probe"
              ELSE "reject"
         ELSE "run"

Gate_strict(b, cfg, t) ==
    IF bypass(cfg) THEN "run"
    ELSE IF b.state = "open"
         THEN IF t - ToNumber(b.lastFailureTime) > cfg.timeout
              THEN "probe"
              ELSE "reject"
         ELSE "run"

(* The gate at the top of CircuitBreaker.execute: "run" the operation,     *)
(* "probe" (open long enough: go half-open and run it), or "reject".       *)
Gate(b, cfg, t) ==
    IF bypass(cfg) THEN "run"
    ELSE IF b.state = "open"
         THEN IF t - ToNumber(b.lastFailureTime) >= cfg.timeout
              THEN "probe"
              ELSE "reject"
         ELSE "run"

entered_clears(b, g) ==
    IF g = "probe"
    THEN [b EXCEPT !.state = "half-open", !.successCount = 0]
    ELSE IF g = "reject" THEN [b EXCEPT !.failureCount = 0] ELSE b

(* what the top of execute assigns for the gate's decision g: a probe      *)
(* makes the state half-open and zeroes successCount, anything else        *)
(* assigns nothing                                                         *)
entered(b, g) ==
    IF g = "probe"
    THEN [b EXCEPT !.state = "half-open", !.successCount = 0]
    ELSE b

reset_keepTime ==
    [ state           |-> "closed",
      failureCount    |-> 0,
      successCount    |-> 0,
      lastFailureTime |-> lastFailureTime ]

(* CircuitBreaker.reset *)
reset ==
    [ state           |-> "closed",
      failureCount    |-> 0,
      successCount    |-> 0,
      lastFailureTime |-> NULL ]

(* ------------------------- HttpWrapper.request ------------------------- *)
caught_first(lastError, error) ==
    IF lastError = NoError THEN error ELSE lastError

(* catch (error) { lastError = error; ... }: the new value of lastError *)
caught(lastError, error) == error

stops_early(attempt, maxRetries, retryable) ==
    attempt >= maxRetries - 1 \/ ~retryable

stops_ignoreClassifier(attempt, maxRetries, retryable) ==
    attempt = maxRetries

(* the two breaks of the catch block: this was the last attempt, or the    *)
(* error is not retryable                                                  *)
stops(attempt, maxRetries, retryable) ==
    attempt = maxRetries \/ ~retryable

onRetryArgs_zeroBased(attempt, error) ==
    [attemptNumber |-> attempt, error |-> error]

(* onRetry?.(attempt + 1, error): the arguments of the call *)
onRetryArgs(attempt, error) ==
    [attemptNumber |-> attempt + 1, error |-> error]

retryEvents_sleepFirst(attempt) ==
    << [ev |-> "sleep", n |-> attempt], [ev |-> "onRetry", n |-> attempt + 1] >>

(* onRetry?.(attempt + 1, error); await sleep(delay): in this order *)
retryEvents(attempt) ==
    << [ev |-> "onRetry", n |-> attempt + 1], [ev |-> "sleep", n |-> attempt] >>

returned_fallsThrough(call) ==
    IF call.attempt < call.eff.maxRetries
    THEN [call EXCEPT !.attempt = @ + 1, !.transportCalls = @ + 1]
    ELSE [call EXCEPT !.pc = "done", !.outcome = "response"]

(* return response: the loop, the operation and execute are left at once   *)
returned(call) == [call EXCEPT !.pc = "done", !.outcome = "response"]

(* request(): merge the config, enter CircuitBreaker.execute, and, unless  *)
(* the gate rejects, start the retry loop up to its first await fetch.     *)
(* The call takes the first slot that holds no call in flight (slots only  *)
(* name the calls), overwriting what the slot's last call left there.      *)
Request(c) ==
    /\ ~InFlight(c)
    /\ \A d \in Slots : d < c => InFlight(d)
    /\ requests < MaxRequests
    /\ requests' = requests + 1
    /\ LET g == Gate(getState, cbConfig, now)
           started == [ IdleCall EXCEPT !.pc = "fetch", !.eff = config,
                                        !.cbAtStart = cbConfig,
                                        !.gate = g, !.transportCalls = 1,
                                        !.events =
                                            << [ev |-> "attempt", n |-> 0] >> ]
           e == entered(getState, g)
       IN  /\ state' = e.state
           /\ failureCount' = e.failureCount
           /\ successCount' = e.successCount
           /\ lastFailureTime' = e.lastFailureTime
           /\ calls' = [calls EXCEPT ![c] =
                 IF g = "reject"
                 THEN [IdleCall EXCEPT !.pc = "done", !.eff = config,
                                       !.gate = g, !.outcome = "circuit-open",
                                       !.thrown = CircuitBreakerOpenError,
                                       !.cbAtStart = cbConfig]
                 ELSE [started EXCEPT
                          !.bypassed = bypass(cbConfig),
                          !.probe = (~bypass(cbConfig)
                                        /\ state' = "half-open")]]
    /\ failRun' = IF \E d \in Slots : InFlight(d) THEN NULL ELSE failRun
    /\ UNCHANGED << config, cbConfig, now, onCircuitOpenCalls,
                    onCircuitCloseCalls, openedAt >>
    /\ UNCHANGED observers

(* what a hook of the caller throws when it raises *)
HookError == [status |-> 0, code |-> "", name |-> "HookError"]

(* execute's try block once the operation has resolved: onSuccess runs,    *)
(* and when the onCircuitClose hook it calls raises, the error lands in    *)
(* execute's catch block, which runs onFailure on what onSuccess left and  *)
(* rethrows it (raised).                                                   *)
resolved(b, cfg, t, hook) ==
    LET s == onSuccess(b, cfg)
        f == onFailure([ state |-> s.state,
                         failureCount |-> s.failureCount,
                         successCount |-> s.successCount,
                         lastFailureTime |-> s.lastFailureTime ], cfg, t)
    IN  IF s.closeHook = 1 /\ hook = "throws"
        THEN [ state |-> f.state, failureCount |-> f.failureCount,
               successCount |-> f.successCount,
               lastFailureTime |-> f.lastFailureTime,
               closeHook |-> 1, openHook |-> f.openHook, raised |-> TRUE ]
        ELSE [ state |-> s.state, failureCount |-> s.failureCount,
               successCount |-> s.successCount,
               lastFailureTime |-> s.lastFailureTime,
               closeHook |-> s.closeHook, openHook |-> 0, raised |-> FALSE ]

(* The operation of call c returned a response: execute runs onSuccess     *)
(* (when enabled) and returns the result, unless onCircuitClose raised.    *)
AttemptSucceeds(c, raw) ==
    /\ calls[c].pc = "fetch"
    /\ fetchWithTimeout(raw) = NoError
    /\ IF ~calls[c].bypassed
       THEN LET b == resolved(getState, cbConfig, now, onCircuitClose)
            IN  /\ calls' = [calls EXCEPT ![c] =
                      IF b.raised
                      THEN [calls[c] EXCEPT !.pc = "done",
                                            !.outcome = "error",
                                            !.thrown = HookError]
                      ELSE returned(calls[c])]
                /\ state' = b.state
                /\ failureCount' = b.failureCount
                /\ successCount' = b.successCount
                /\ lastFailureTime' = b.lastFailureTime
                /\ onCircuitCloseCalls' = onCircuitCloseCalls + b.closeHook
                /\ onCircuitOpenCalls' = onCircuitOpenCalls + b.openHook
                /\ openedAt' = IF state # "open" /\ b.state = "open"
                               THEN now ELSE openedAt
       ELSE /\ calls' = [calls EXCEPT ![c] = returned(calls[c])]
            /\ UNCHANGED << state, failureCount, successCount,
                            lastFailureTime, onCircuitCloseCalls,
                            onCircuitOpenCalls, openedAt >>
    /\ failRun' = NULL
    /\ UNCHANGED << config, cbConfig, now, requests >>
    /\ UNCHANGED observers

(* The attempt failed and the loop breaks (last attempt, or the error is   *)
(* not retryable): the operation throws lastError, execute runs onFailure  *)
(* (when enabled) and rethrows.                                            *)
AttemptFailsLast(c, raw) ==
    LET error     == fetchWithTimeout(raw)
        lastError == caught(calls[c].lastError, error)
    IN  /\ calls[c].pc = "fetch"
        /\ error # NoError
        /\ stops(calls[c].attempt, calls[c].eff.maxRetries,
                 isRetryableError(error, retryableStatuses, retryableErrors))
        /\ calls' = [calls EXCEPT ![c].pc = "done", ![c].outcome = "error",
                                  ![c].lastError = lastError,
                                  ![c].thrown = lastError]
        /\ IF ~calls[c].bypassed
           THEN LET b == onFailure(getState, cbConfig, now)
                IN  /\ state' = b.state
                    /\ failureCount' = b.failureCount
                    /\ successCount' = b.successCount
                    /\ lastFailureTime' = b.lastFailureTime
                    /\ onCircuitOpenCalls' = onCircuitOpenCalls + b.openHook
                    /\ openedAt' = IF state # "open" /\ b.state = "open"
                                   THEN now ELSE openedAt
           ELSE UNCHANGED << state, failureCount, successCount,
                             lastFailureTime, onCircuitOpenCalls, openedAt >>
        /\ failRun' = IF failRun = NULL THEN NULL ELSE failRun + 1
        /\ UNCHANGED << config, cbConfig, now, requests,
                        onCircuitCloseCalls >>
        /\ UNCHANGED observers

(* The attempt failed with a retryable error and retries remain: compute   *)
(* the delay, call onRetry, and sleep.                                     *)
AttemptFailsRetry(c, raw, delay) ==
    LET error == fetchWithTimeout(raw)
        eff   == calls[c].eff
    IN  /\ calls[c].pc = "fetch"
        /\ error # NoError
        /\ ~stops(calls[c].attempt, eff.maxRetries,
                  isRetryableError(error, retryableStatuses, retryableErrors))
        /\ delay \in calculateDelay(calls[c].attempt, eff.baseDelay,
                                    eff.maxDelay, eff.jitter)
        /\ calls' = [calls EXCEPT ![c].pc = "sleep",
                                  ![c].lastError =
                                      caught(calls[c].lastError, error),
                                  ![c].onRetryLog = Append(@,
                                      onRetryArgs(calls[c].attempt, error)),
                                  ![c].events =
                                      @ \o retryEvents(calls[c].attempt),
                                  ![c].onRetryCalls = @ + 1,
                                  ![c].sleeps = @ + 1,
                                  ![c].wakeAt = now + delay]
        /\ UNCHANGED << config, cbConfig, state, failureCount, successCount,
                        lastFailureTime, now, requests, onCircuitOpenCalls,
                        onCircuitCloseCalls, failRun, openedAt >>
        /\ UNCHANGED observers

slept_atOnce(call, t) == TRUE

slept_never(call, t) == FALSE

(* await sleep(delay): the timer set for wakeAt has fired by time t *)
slept(call, t) == t >= call.wakeAt

(* sleep(delay) is over: the loop goes to the next attempt *)
Wake(c) ==
    /\ calls[c].pc = "sleep"
    /\ slept(calls[c], now)
    /\ calls' = [calls EXCEPT ![c].pc = "fetch",
                              ![c].attempt = @ + 1,
                              ![c].transportCalls = @ + 1,
                              ![c].events = Append(@,
                                  [ev |-> "attempt",
                                   n |-> calls[c].attempt + 1])]
    /\ UNCHANGED << config, cbConfig, state, failureCount, successCount,
                    lastFailureTime, now, requests, onCircuitOpenCalls,
                    onCircuitCloseCalls, failRun, openedAt >>
    /\ UNCHANGED observers

(* HttpWrapper.resetCircuitBreaker -> CircuitBreaker.reset *)
Reset ==
    /\ state' = reset.state
    /\ failureCount' = reset.failureCount
    /\ successCount' = reset.successCount
    /\ lastFailureTime' = reset.lastFailureTime
    /\ failRun' = NULL
    /\ UNCHANGED << config, cbConfig, now, calls, requests,
                    onCircuitOpenCalls, onCircuitCloseCalls, openedAt >>
    /\ UNCHANGED observers

(* time passes *)
Tick ==
    /\ now < MaxTime
    /\ now' = now + 1
    /\ UNCHANGED << config, cbConfig, state, failureCount, successCount,
                    lastFailureTime, calls, requests, onCircuitOpenCalls,
                    onCircuitCloseCalls, failRun, openedAt >>
    /\ UNCHANGED observers

Next ==
    \/ \E c \in Slots : Request(c)
    \/ \E c \in Slots, raw \in FetchOutcomes : AttemptSucceeds(c, raw)
    \/ \E c \in Slots, raw \in FetchOutcomes : AttemptFailsLast(c, raw)
    \/ \E c \in Slots, raw \in FetchOutcomes, delay \in 0..MaxDelay :
           AttemptFailsRetry(c, raw, delay)
    \/ \E c \in Slots : Wake(c)
    \/ Reset
    \/ Tick

(* Every interleaving of request() calls, resets and the clock. *)
Spec == Init /\ [][Next]_vars

(* The breaker around single-attempt operations: clients built with        *)
(* maxRetries 0, so that execute's operation is one fetch that resolves or *)
(* rejects (jitter is then never read).  Calls still overlap.              *)
InitCB == Init /\ config.maxRetries = 0 /\ ~config.jitter

(* the variables of the client: all but the observers *)
client == << config, cbConfig, state, failureCount, successCount,
             lastFailureTime, now, calls, requests, onCircuitOpenCalls,
             onCircuitCloseCalls, failRun, openedAt >>

NextCB ==
    \/ \E c \in Slots : Request(c)
    \/ \E c \in Slots, raw \in FetchOutcomes : AttemptSucceeds(c, raw)
    \/ \E c \in Slots, raw \in FetchOutcomes : AttemptFailsLast(c, raw)
    \/ Reset
    \/ Tick

SpecCB == InitCB /\ [][NextCB]_vars

(* A caller that awaits each request() before it makes the next one. *)
RequestSeq(c) == NoneInFlight /\ Request(c)

NextSeq ==
    \/ \E c \in Slots : RequestSeq(c)
    \/ \E c \in Slots, raw \in FetchOutcomes : AttemptSucceeds(c, raw)
    \/ \E c \in Slots, raw \in FetchOutcomes : AttemptFailsLast(c, raw)
    \/ \E c \in Slots, raw \in FetchOutcomes, delay \in 0..MaxDelay :
           AttemptFailsRetry(c, raw, delay)
    \/ \E c \in Slots : Wake(c)
    \/ Reset
    \/ Tick

SpecSeq == Init /\ [][NextSeq]_vars

(* The retry loop of such a caller's calls, around a breaker built with    *)
(* the largest thresholds (enabled or not).                                *)
InitRetry ==
    /\ Init
    /\ cbConfig.failureThreshold = MaxThreshold
    /\ cbConfig.successThreshold = MaxThreshold

SpecRetry == InitRetry /\ [][NextSeq]_vars


(* the times at which the timers of the sleeping calls fire *)
due == {calls[c].wakeAt : c \in {d \in Slots : calls[d].pc = "sleep"}}

(* time passes, as in Tick, and goes on passing for as long as a timer set *)
(* by sleep(delay) has not fired                                           *)
Pass ==
    /\ \E t \in {MaxTime} \cup due : now < t
    /\ now' = now + 1
    /\ UNCHANGED << config, cbConfig, state, failureCount, successCount,
                    lastFailureTime, calls, requests, onCircuitOpenCalls,
                    onCircuitCloseCalls, failRun, openedAt >>
    /\ UNCHANGED observers

(* await fetchWithTimeout(...) of call c settles: it resolves, or rejects  *)
(* and the catch block breaks or goes to sleep                             *)
Settles(c) ==
    \E raw \in FetchOutcomes :
        \/ AttemptSucceeds(c, raw)
        \/ AttemptFailsLast(c, raw)
        \/ \E delay \in 0..MaxDelay : AttemptFailsRetry(c, raw, delay)

(* request() of a caller that awaits each call, begun before the clock's   *)
(* free range has run out                                                  *)
RequestLive(c) == now <= MaxTime /\ RequestSeq(c)

NextLive ==
    \/ \E c \in Slots : RequestLive(c)
    \/ \E c \in Slots, raw \in FetchOutcomes : AttemptSucceeds(c, raw)
    \/ \E c \in Slots, raw \in FetchOutcomes : AttemptFailsLast(c, raw)
    \/ \E c \in Slots, raw \in FetchOutcomes, delay \in 0..MaxDelay :
           AttemptFailsRetry(c, raw, delay)
    \/ \E c \in Slots : Wake(c)
    \/ Pass

(* every Transport attempt eventually settles (fetchWithTimeout's timer    *)
(* aborts a fetch that hangs), every timer eventually fires and the        *)
(* continuation after it runs                                              *)
Fairness ==
    /\ \A c \in Slots : WF_vars(Settles(c))
    /\ \A c \in Slots : WF_vars(Wake(c))
    /\ WF_vars(Pass)

(* The retry loop of a caller that awaits each request() and never resets  *)
(* the breaker, under an event loop that runs every continuation that is   *)
(* ready.                                                                  *)
SpecLive == InitRetry /\ [][NextLive]_vars /\ Fairness


(* The caller aborts the signal it passed in options while call c is in    *)
(* flight.  fetchWithTimeout replaces options.signal by its own            *)
(* controller's signal and sleep(delay) is given no signal, so nothing in  *)
(* the call observes it: only the caller's side changes.                   *)
Cancel(c) ==
    /\ InFlight(c)
    /\ ~calls[c].cancelled
    /\ calls' = [calls EXCEPT ![c].cancelled = TRUE]
    /\ UNCHANGED << config, cbConfig, state, failureCount, successCount,
                    lastFailureTime, now, requests, onCircuitOpenCalls,
                    onCircuitCloseCalls, failRun, openedAt >>
    /\ UNCHANGED observers

NextCancel ==
    \/ NextSeq
    \/ \E c \in Slots : Cancel(c)

(* A caller that awaits each request() and may cancel it while it runs. *)
SpecCancel == InitRetry /\ [][NextCancel]_vars


(* clients whose breaker is enabled and whose onCircuitClose hook may      *)
(* raise; single-attempt calls that overlap                                *)
InitHooks ==
    /\ HttpWrapperNew
    /\ config.maxRetries = 0 /\ ~config.jitter
    /\ cbConfig.enabled
    /\ snapshot = NoSnapshot
    /\ snapshotOf = CircuitBreakerNew
    /\ pure = NoPure
    /\ lastMerge = NoMerge
    /\ onCircuitClose \in {"returns", "throws"}

SpecHooks == InitHooks /\ [][NextCB]_vars


(* ----------------------- HttpWrapper.updateConfig ---------------------- *)
(* { ...base, ...over }: the fields of over replace or extend base's *)
Spread(base, over) ==
    [ k \in DOMAIN base \cup DOMAIN over |->
        IF k \in DOMAIN over THEN over[k] ELSE base[k] ]

(* The fields of an updateConfig argument that land in the retry settings. *)
(* (this.config.circuitBreaker is replaced too, but nothing reads it after *)
(* the constructor: the breaker holds its own config.)                     *)
RetryPart(upd) == [ k \in DOMAIN upd \ {"circuitBreaker"} |-> upd[k] ]

(* the arguments of updateConfig that are tried *)
UpdateInputs ==
    { [maxRetries |-> 0],
      [circuitBreaker |-> [failureThreshold |-> 1]],
      [maxRetries |-> 1, jitter |-> FALSE,
       circuitBreaker |-> [enabled |-> FALSE, successThreshold |-> 1]] }

(* updateConfig(upd) *)
UpdateConfig(upd) ==
    /\ config' = Spread(config, RetryPart(upd))
    /\ cbConfig' = IF "circuitBreaker" \in DOMAIN upd
                   THEN Spread(cbConfig, upd.circuitBreaker)
                   ELSE cbConfig
    /\ UNCHANGED << state, failureCount, successCount, lastFailureTime, now,
                    calls, requests, onCircuitOpenCalls, onCircuitCloseCalls,
                    failRun, openedAt >>
    /\ lastMerge' = [ before |-> cbConfig,
                      over |-> IF "circuitBreaker" \in DOMAIN upd
                               THEN upd.circuitBreaker ELSE EmptyObject ]
    /\ UNCHANGED << snapshot, snapshotOf, pure, onCircuitClose >>

(* a client built with one retry, jitter, and the largest thresholds *)
InitUpdate ==
    /\ Init
    /\ config.maxRetries = 1 /\ config.jitter
    /\ cbConfig.enabled
    /\ cbConfig.failureThreshold = MaxThreshold
    /\ cbConfig.successThreshold = MaxThreshold

NextUpdate ==
    \/ \E c \in Slots : RequestSeq(c)
    \/ \E c \in Slots, raw \in FetchOutcomes : AttemptSucceeds(c, raw)
    \/ \E c \in Slots, raw \in FetchOutcomes : AttemptFailsLast(c, raw)
    \/ \E c \in Slots, raw \in FetchOutcomes, delay \in 0..MaxDelay :
           AttemptFailsRetry(c, raw, delay)
    \/ \E c \in Slots : Wake(c)
    \/ Tick
    \/ \E upd \in UpdateInputs : UpdateConfig(upd)

(* A caller that awaits each request() and may call updateConfig at any    *)
(* time, also while its request() is in flight.                            *)
SpecUpdate == InitUpdate /\ [][NextUpdate]_vars


(* ---------------------- HttpWrapper.constructor ------------------------ *)
(* DEFAULT_CONFIG: the retry settings carried here and circuitBreaker *)
DEFAULT_CONFIG ==
    [ maxRetries |-> 3, baseDelay |-> 1000, maxDelay |-> 30000,
      jitter |-> TRUE,
      circuitBreaker |-> [ enabled |-> TRUE, failureThreshold |-> 5,
                           successThreshold |-> 2, timeout |-> 60000 ] ]

(* the keys of DEFAULT_CONFIG.circuitBreaker *)
BreakerKeys == DOMAIN DEFAULT_CONFIG.circuitBreaker

(* an object with the property k holding one of vals, or without it *)
Optional(k, vals) == {EmptyObject} \cup { [x \in {k} |-> v] : v \in vals }

(* circuitBreaker objects a caller can pass: any keys, any values tried *)
BreakerOverrides ==
    { Spread(Spread(e, f), Spread(s, t)) :
        e \in Optional("enabled", BOOLEAN),
        f \in Optional("failureThreshold", 1..MaxThreshold),
        s \in Optional("successThreshold", 1..MaxThreshold),
        t \in Optional("timeout", {OpenTimeout}) }

(* configs that say nothing but (part of) circuitBreaker *)
MergeInputs ==
    {EmptyObject} \cup { [circuitBreaker |-> o] : o \in BreakerOverrides }

(* new HttpWrapper(arg): this.config is { ...DEFAULT_CONFIG, ...arg } and  *)
(* the breaker is handed this.config.circuitBreaker as its config.         *)
InitMerge ==
    /\ \E arg \in MergeInputs :
           LET merged == Spread(DEFAULT_CONFIG, arg)
           IN  /\ config = RetryPart(merged)
               /\ cbConfig = merged.circuitBreaker
               /\ lastMerge =
                      [ before |-> DEFAULT_CONFIG.circuitBreaker,
                        over |-> IF "circuitBreaker" \in DOMAIN arg
                                 THEN arg.circuitBreaker ELSE EmptyObject ]
    /\ Fresh
    /\ snapshot = NoSnapshot
    /\ snapshotOf = CircuitBreakerNew
    /\ pure = NoPure
    /\ onCircuitClose = "returns"

NextMerge == \E upd \in MergeInputs : UpdateConfig(upd)

(* Clients built with a partial circuitBreaker config, then reconfigured   *)
(* with partial ones.                                                      *)
SpecMerge == InitMerge /\ [][NextMerge]_vars


(* new HttpWrapper(config) checks nothing: configs with a zero baseDelay,  *)
(* a maxDelay below baseDelay, a zero threshold or a zero open timeout are *)
(* taken as they are.                                                      *)
InitUnchecked ==
    /\ config \in [ maxRetries : {0, 1}, baseDelay : {0, BaseDelay},
                    maxDelay : {0, MaxDelay}, jitter : {FALSE} ]
    /\ cbConfig \in [ enabled : {TRUE},
                      failureThreshold : {0, 1},
                      successThreshold : {0, 1},
                      timeout : {0, OpenTimeout} ]
    /\ Fresh
    /\ snapshot = NoSnapshot
    /\ snapshotOf = CircuitBreakerNew
    /\ pure = NoPure
    /\ lastMerge = NoMerge
    /\ onCircuitClose = "returns"

(* A caller that awaits each request() of such a client. *)
SpecUnchecked == InitUnchecked /\ [][NextSeq]_vars


(* ------------------ HttpWrapper.getCircuitBreakerState ----------------- *)
getCircuitBreakerState_live ==
    [taken |-> TRUE, ref |-> TRUE, value |-> getState]

(* getCircuitBreakerState() returns what CircuitBreaker.getState() builds: *)
(* a new object (ref FALSE: not the breaker itself) holding the values of  *)
(* the four fields.                                                        *)
getCircuitBreakerState ==
    [taken |-> TRUE, ref |-> FALSE, value |-> getState]

(* What the holder of a returned object reads in it: the object's own      *)
(* fields, or the breaker's present fields were the object the breaker.    *)
Read(s) == IF s.ref THEN getState ELSE s.value

(* a caller calls getCircuitBreakerState() and keeps what it returns *)
GetCircuitBreakerState ==
    /\ snapshot' = getCircuitBreakerState
    /\ snapshotOf' = getState
    /\ UNCHANGED << client, pure, lastMerge, onCircuitClose >>

NextSnapshot ==
    \/ \E c \in Slots : RequestSeq(c)
    \/ \E c \in Slots, raw \in FetchOutcomes : AttemptSucceeds(c, raw)
    \/ \E c \in Slots, raw \in FetchOutcomes : AttemptFailsLast(c, raw)
    \/ Reset
    \/ Tick
    \/ GetCircuitBreakerState

(* A caller that awaits each single-attempt request() and reads the        *)
(* breaker's state whenever it likes.                                      *)
SpecSnapshot == InitCB /\ [][NextSnapshot]_vars


(* --------------------- the exported pure functions --------------------- *)
(* calls of calculateDelay(attempt, baseDelay, maxDelay, withJitter) with  *)
(* baseDelay > 0 and maxDelay >= baseDelay                                 *)
DelayInputs ==
    { [ fn |-> "calculateDelay", applied |-> FALSE, attempt |-> a,
        baseDelay |-> b, maxDelay |-> m, withJitter |-> j, result |-> 0 ] :
          a \in 0..MaxAttempt, j \in BOOLEAN,
          b \in 1..MaxBase, m \in 1..MaxCap } \
    { [ fn |-> "calculateDelay", applied |-> FALSE, attempt |-> a,
        baseDelay |-> b, maxDelay |-> m, withJitter |-> j, result |-> 0 ] :
          a \in 0..MaxAttempt, j \in BOOLEAN,
          b \in 1..MaxBase, m \in 1..(MaxBase - 1) }

(* errors with or without a status (0: none), a code ("": none), and a     *)
(* timeout name                                                            *)
ErrorInputs ==
    [ status : {0, 404, 503}, code : {"", "ECONNRESET", "EPIPE"},
      name : {"Error", "TimeoutError", "AbortError"} ]

(* calls of isRetryableError(error, retryableStatuses, retryableErrors) *)
ClassifierInputs ==
    [ fn : {"isRetryableError"}, applied : {FALSE}, error : ErrorInputs,
      statuses : {{}, {404}, retryableStatuses},
      errors : {{}, retryableErrors}, result : {FALSE} ]

InitPure ==
    /\ HttpWrapperNew
    /\ config.maxRetries = 0 /\ ~config.jitter
    /\ cbConfig.enabled
    /\ cbConfig.failureThreshold = 1 /\ cbConfig.successThreshold = 1
    /\ snapshot = NoSnapshot
    /\ snapshotOf = CircuitBreakerNew
    /\ lastMerge = NoMerge
    /\ onCircuitClose = "returns"
    /\ pure \in DelayInputs \cup ClassifierInputs

(* the call of calculateDelay returns *)
CalculateDelay ==
    /\ pure.fn = "calculateDelay"
    /\ ~pure.applied
    /\ \E d \in calculateDelay(pure.attempt, pure.baseDelay, pure.maxDelay,
                                pure.withJitter) :
           pure' = [pure EXCEPT !.applied = TRUE, !.result = d]
    /\ UNCHANGED << client, snapshot, snapshotOf, lastMerge,
                    onCircuitClose >>

(* the call of isRetryableError returns *)
IsRetryableError ==
    /\ pure.fn = "isRetryableError"
    /\ ~pure.applied
    /\ pure' = [pure EXCEPT !.applied = TRUE,
                            !.result = isRetryableError(pure.error,
                                           pure.statuses, pure.errors)]
    /\ UNCHANGED << client, snapshot, snapshotOf, lastMerge,
                    onCircuitClose >>

NextPure == CalculateDelay \/ IsRetryableError

(* One call of calculateDelay or isRetryableError on every input tried. *)
SpecPure == InitPure /\ [][NextPure]_vars


(* ------------------------------ claims --------------------------------- *)
(* C1: on an enabled breaker that starts closed with failureCount 0, after *)
(* k execute calls made one after another whose operations all failed, the *)
(* state is closed when k < failureThreshold, and open with failureCount   *)
(* equal to failureThreshold when k = failureThreshold.                    *)
C1_OpensAtThreshold ==
    (cbConfig.enabled /\ failRun # NULL /\ NoneInFlight) =>
        /\ failRun < cbConfig.failureThreshold => state = "closed"
        /\ failRun = cbConfig.failureThreshold =>
               state = "open" /\ failureCount = cbConfig.failureThreshold

C1_Witness ==
    /\ cbConfig.enabled
    /\ cbConfig.failureThreshold = 2
    /\ failRun = 2
    /\ NoneInFlight
    /\ state = "open"

(* the step of a request() made while open and inside the open timeout *)
C2_RejectedStep ==
    \A c \in Slots :
        ( /\ Request(c)
          /\ state = "open"
          /\ now - ToNumber(lastFailureTime) < cbConfig.timeout )
        => /\ calls'[c].pc = "done"
           /\ calls'[c].outcome = "circuit-open"
           /\ calls'[c].transportCalls = 0
           /\ calls'[c].onRetryCalls = 0
           /\ calls'[c].sleeps = 0

(* a rejected call is over and has made no call *)
C2_RejectedStays ==
    \A c \in Slots :
        calls[c].outcome = "circuit-open" =>
            /\ calls[c].pc = "done"
            /\ calls[c].transportCalls = 0
            /\ calls[c].onRetryCalls = 0
            /\ calls[c].sleeps = 0

(* C2: a request() made while the state is open and now - lastFailureTime  *)
(* is below the open timeout is rejected with the circuit-open error, and  *)
(* that call makes no Transport call, no onRetry call and no backoff       *)
(* sleep, then or later.                                                   *)
C2_OpenRejectsWithoutRunning ==
    [][C2_RejectedStep]_vars /\ []C2_RejectedStays

C2_Witness ==
    \E c \in Slots :
        /\ calls[c].outcome = "circuit-open"
        /\ state = "open"
        /\ now - ToNumber(lastFailureTime) < cbConfig.timeout
        /\ config.maxRetries >= 1

(* what a request() that runs its operation leaves in its slot *)
Runs(c) ==
    /\ calls'[c].pc = "fetch"
    /\ calls'[c].attempt = 0
    /\ calls'[c].transportCalls = 1
    /\ calls'[c].outcome = "none"

(* C3, as stated: once the circuit went open and the open timeout has      *)
(* elapsed since that transition, the next request() is not rejected: it   *)
(* moves the state to half-open, resets successCount and runs the          *)
(* operation.                                                              *)
C3_AsStated ==
    [][ \A c \in Slots :
          ( /\ Request(c)
            /\ state = "open"
            /\ now - ToNumber(openedAt) >= cbConfig.timeout )
          => /\ state' = "half-open"
             /\ successCount' = 0
             /\ Runs(c) ]_vars

(* C3, amended: once the circuit is open and the open timeout has elapsed  *)
(* since lastFailureTime (the last failure recorded, which may be later    *)
(* than the transition to open), the next request() is not rejected: it    *)
(* moves the state to half-open, resets successCount and runs the          *)
(* operation.                                                              *)
C3_ProbeAfterTimeout ==
    [][ \A c \in Slots :
          ( /\ Request(c)
            /\ state = "open"
            /\ now - ToNumber(lastFailureTime) >= cbConfig.timeout )
          => /\ state' = "half-open"
             /\ successCount' = 0
             /\ Runs(c) ]_vars

C3_Witness ==
    \E c \in Slots :
        /\ calls[c].gate = "probe"
        /\ calls[c].pc = "fetch"
        /\ calls[c].attempt = 0
        /\ state = "half-open"
        /\ successCount = 0
        /\ now - ToNumber(lastFailureTime) >= cbConfig.timeout

(* C4: in half-open a successful operation adds one to successCount; when  *)
(* that reaches successThreshold the state becomes closed, successCount is *)
(* 0 and onCircuitClose is invoked once; below it the state stays          *)
(* half-open and the hook is not invoked.  The hook is invoked by no other *)
(* step.                                                                   *)
C4_HalfOpenSuccess ==
    [][ /\ \A c \in Slots, raw \in FetchOutcomes :
              (AttemptSucceeds(c, raw) /\ state = "half-open") =>
                  IF successCount + 1 >= cbConfig.successThreshold
                  THEN /\ state' = "closed"
                       /\ successCount' = 0
                       /\ onCircuitCloseCalls' = onCircuitCloseCalls + 1
                  ELSE /\ state' = "half-open"
                       /\ successCount' = successCount + 1
                       /\ onCircuitCloseCalls' = onCircuitCloseCalls
        /\ onCircuitCloseCalls' # onCircuitCloseCalls =>
              /\ state = "half-open"
              /\ state' = "closed"
              /\ onCircuitCloseCalls' = onCircuitCloseCalls + 1 ]_vars

C4_Witness ==
    /\ cbConfig.successThreshold = 2
    /\ state = "closed"
    /\ successCount = 0
    /\ onCircuitCloseCalls = 1

(* C5: a failure of an operation while the state is half-open puts the     *)
(* state back to open and successCount to 0.                               *)
C5_HalfOpenFailureReopens ==
    [][ \A c \in Slots, raw \in FetchOutcomes :
          (AttemptFailsLast(c, raw) /\ state = "half-open") =>
              (state' = "open" /\ successCount' = 0) ]_vars

(* C6: onCircuitOpen is invoked once by each step that takes the state     *)
(* from closed or half-open to open, and by no other step (not by a        *)
(* failure that completes while the state is already open).                *)
C6_OpenHookOncePerTransition ==
    [][ onCircuitOpenCalls' = onCircuitOpenCalls +
            (IF state # "open" /\ state' = "open" THEN 1 ELSE 0) ]_vars

C6_Witness ==
    /\ state = "open"
    /\ onCircuitOpenCalls = 1
    /\ onCircuitCloseCalls = 0
    /\ failureCount = cbConfig.failureThreshold + 1
    /\ NoneInFlight

(* the calls in flight that were let through while the breaker was         *)
(* half-open                                                               *)
Probes == {c \in Slots : InFlight(c) /\ calls[c].probe}

(* C7: at most one call that was let through while the breaker was         *)
(* half-open is in flight at any time.                                     *)
C7_OneProbeAtATime == Cardinality(Probes) <= 1

(* C8: failureCount and successCount are never both nonzero *)
C8_CountsNotBothNonzero == ~(failureCount # 0 /\ successCount # 0)

C8_Witness ==
    /\ successCount > 0
    /\ failureCount = 0
    /\ lastFailureTime # NULL
    /\ \E c \in Slots : InFlight(c)

(* C9: reset() leaves state closed, failureCount 0, successCount 0 and     *)
(* lastFailureTime null, whatever the breaker was before.                  *)
C9_ResetYieldsClosed ==
    [][ Reset =>
          /\ state' = "closed"
          /\ failureCount' = 0
          /\ successCount' = 0
          /\ lastFailureTime' = NULL ]_vars

(* the breaker opened at some point and lastFailureTime is null again:     *)
(* only reset() clears it                                                  *)
C9_Witness ==
    /\ onCircuitOpenCalls >= 1
    /\ state = "closed"
    /\ failureCount = 0
    /\ successCount = 0
    /\ lastFailureTime = NULL

(* a step of a disabled breaker *)
C10_DisabledStep ==
    ~cbConfig.enabled =>
        /\ \A c \in Slots : Request(c) => Runs(c)
        /\ UNCHANGED << state, failureCount, successCount, lastFailureTime >>

(* a state of a disabled breaker *)
C10_DisabledState ==
    ~cbConfig.enabled =>
        /\ getState = CircuitBreakerNew
        /\ \A c \in Slots : calls[c].outcome # "circuit-open"

(* C10: with enabled false every request() runs its operation and is never *)
(* rejected, and the breaker stays as constructed (closed, counters 0,     *)
(* lastFailureTime null) whatever the operations do.                       *)
C10_DisabledNeverCounts ==
    [][C10_DisabledStep]_vars /\ []C10_DisabledState

C10_Witness ==
    /\ ~cbConfig.enabled
    /\ failRun = 3
    /\ state = "closed"
    /\ failureCount = 0
    /\ \E c \in Slots : calls[c].outcome = "error"

(* a step in which the operation of a call throws *)
C11_FailStep ==
    \A c \in Slots, raw \in FetchOutcomes :
        AttemptFailsLast(c, raw) =>
            /\ calls'[c].pc = "done"
            /\ calls'[c].outcome = "error"
            /\ calls'[c].thrown = fetchWithTimeout(raw)
            /\ ~calls[c].bypassed => failureCount' = failureCount + 1

(* what a finished call has thrown *)
C11_FailState ==
    \A c \in Slots :
        /\ calls[c].outcome = "circuit-open"
               <=> calls[c].thrown = CircuitBreakerOpenError
        /\ calls[c].outcome = "error"
               <=> calls[c].thrown \notin {NoError, CircuitBreakerOpenError}
        /\ calls[c].outcome = "error" => calls[c].thrown = calls[c].lastError

(* C11: when request() fails for a reason other than the open-circuit      *)
(* rejection, the error the caller receives is exactly the error raised by *)
(* the last Transport attempt made: the retry loop surfaces it unchanged   *)
(* and execute rethrows it unchanged after updating its counters.          *)
C11_LastErrorSurfaces == [][C11_FailStep]_vars /\ []C11_FailState

(* a call that failed twice, the second time with another error *)
C11_Witness ==
    \E c \in Slots :
        /\ calls[c].pc = "done"
        /\ calls[c].outcome = "error"
        /\ calls[c].transportCalls = 2
        /\ calls[c].thrown.status = 404
        /\ calls[c].onRetryLog[1].error.name = "TimeoutError"
        /\ failureCount = 1

(* C12: for every maxRetries >= 0 one request() makes at most              *)
(* maxRetries + 1 Transport attempts, and exactly maxRetries + 1 when      *)
(* every attempt fails with a retryable error; with maxRetries 0 it makes  *)
(* exactly one attempt, retryable or not.                                  *)
C12_AttemptsBounded ==
    \A c \in Slots :
        LET call == calls[c]
            ran  == call.pc = "done" /\ call.outcome \in {"response", "error"}
        IN  /\ call.transportCalls <= call.eff.maxRetries + 1
            /\ ( /\ ran
                 /\ call.outcome = "error"
                 /\ isRetryableError(call.thrown, retryableStatuses,
                                     retryableErrors)
                 /\ \A i \in 1..Len(call.onRetryLog) :
                        isRetryableError(call.onRetryLog[i].error,
                                         retryableStatuses, retryableErrors) )
                   => call.transportCalls = call.eff.maxRetries + 1
            /\ (ran /\ call.eff.maxRetries = 0) => call.transportCalls = 1

(* every attempt of a call with maxRetries 2 failed with a retryable error *)
C12_Witness ==
    \E c \in Slots :
        /\ calls[c].pc = "done"
        /\ calls[c].outcome = "error"
        /\ calls[c].eff.maxRetries = MaxRetries
        /\ calls[c].transportCalls = MaxRetries + 1
        /\ calls[c].thrown.status = 503

(* C13: when an attempt succeeds at index k <= maxRetries, after k         *)
(* retryable failures, request() returns that response and no further      *)
(* Transport attempt, onRetry call or sleep happens for the call.          *)
C13_SuccessEndsCall ==
    [][ /\ \A c \in Slots, raw \in FetchOutcomes :
               AttemptSucceeds(c, raw) =>
                   calls'[c] = [calls[c] EXCEPT !.pc = "done",
                                                !.outcome = "response"]
        /\ \A c \in Slots :
               (calls[c].pc = "done" /\ calls'[c] # calls[c]) => Request(c)
      ]_vars

(* a call that succeeded on its second attempt *)
C13_Witness ==
    \E c \in Slots :
        /\ calls[c].pc = "done"
        /\ calls[c].outcome = "response"
        /\ calls[c].attempt = 1
        /\ calls[c].transportCalls = 2
        /\ calls[c].onRetryCalls = 1
        /\ calls[c].sleeps = 1

(* the onRetry calls of a call that is at an attempt or has finished *)
C14_LogState ==
    \A c \in Slots :
        LET call == calls[c]
            n    == call.transportCalls
        IN  (call.pc \in {"fetch", "done"} /\ n >= 1) =>
                /\ Len(call.onRetryLog) = n - 1
                /\ call.onRetryCalls = n - 1
                /\ \A i \in 1..(n - 1) : call.onRetryLog[i].attemptNumber = i

(* the onRetry call of a failed attempt *)
C14_LogStep ==
    /\ \A c \in Slots :
           (calls[c].pc = "fetch" /\ calls'[c].pc = "sleep") =>
               \E raw \in FetchOutcomes :
                   /\ AttemptFailsRetry(c, raw, calls'[c].wakeAt - now)
                   /\ calls'[c].onRetryLog =
                          Append(calls[c].onRetryLog,
                                 [attemptNumber |-> calls[c].transportCalls,
                                  error |-> fetchWithTimeout(raw)])
    /\ \A c \in Slots :
           (calls[c].pc = "fetch" /\ calls'[c].pc = "done") =>
               calls'[c].onRetryLog = calls[c].onRetryLog

(* C14: a request() that makes n attempts invokes onRetry exactly n - 1    *)
(* times, with attemptNumber 1, 2, ..., n - 1 in that order, each with the *)
(* error of the attempt that just failed, and never for the final attempt. *)
C14_OnRetryPerRetry == [][C14_LogStep]_vars /\ []C14_LogState

(* a call that made three attempts, the first two failing differently *)
C14_Witness ==
    \E c \in Slots :
        /\ calls[c].pc = "done"
        /\ calls[c].transportCalls = 3
        /\ Len(calls[c].onRetryLog) = 2
        /\ calls[c].onRetryLog[1].error.status = 503
        /\ calls[c].onRetryLog[2].error.name = "TimeoutError"

(* a step in which an attempt fails with a non-retryable error *)
C15_StopStep ==
    \A c \in Slots, raw \in FetchOutcomes :
        LET error == fetchWithTimeout(raw)
        IN  ( /\ calls[c].pc = "fetch"
              /\ error # NoError
              /\ ~isRetryableError(error, retryableStatuses, retryableErrors)
              /\ \/ AttemptFailsLast(c, raw)
                 \/ \E delay \in 0..MaxDelay : AttemptFailsRetry(c, raw, delay)
            ) => calls'[c] = [calls[c] EXCEPT !.pc = "done",
                                              !.outcome = "error",
                                              !.lastError = error,
                                              !.thrown = error]

(* no onRetry call was made for a non-retryable error *)
C15_StopState ==
    \A c \in Slots :
        /\ \A i \in 1..Len(calls[c].onRetryLog) :
               isRetryableError(calls[c].onRetryLog[i].error,
                                retryableStatuses, retryableErrors)
        /\ calls[c].pc = "sleep" =>
               isRetryableError(calls[c].lastError, retryableStatuses,
                                retryableErrors)

(* C15: a Transport failure that the classifier deems non-retryable stops  *)
(* the call at once even when retries remain: no further attempt, no       *)
(* sleep, no onRetry call, and that error is the one surfaced.             *)
C15_NonRetryableStops == [][C15_StopStep]_vars /\ []C15_StopState

(* a non-retryable failure on the first attempt with retries left *)
C15_Witness ==
    \E c \in Slots :
        /\ calls[c].pc = "done"
        /\ calls[c].outcome = "error"
        /\ calls[c].thrown.status = 404
        /\ calls[c].eff.maxRetries >= 1
        /\ calls[c].transportCalls = 1
        /\ calls[c].onRetryCalls = 0
        /\ calls[c].sleeps = 0

(* C16: for attempt >= 0, baseDelay > 0 and maxDelay >= baseDelay,         *)
(* calculateDelay(attempt, baseDelay, maxDelay, false) is                  *)
(* min(baseDelay * 2^attempt, maxDelay): it never exceeds maxDelay and it  *)
(* does not decrease as attempt grows.                                     *)
C16_DelayIsCappedExponential ==
    (pure.fn = "calculateDelay" /\ pure.applied /\ ~pure.withJitter) =>
        LET exponential == pure.baseDelay * 2^pure.attempt
        IN  /\ pure.result = IF exponential <= pure.maxDelay
                             THEN exponential ELSE pure.maxDelay
            /\ pure.result <= pure.maxDelay
            /\ \A next \in calculateDelay(pure.attempt + 1, pure.baseDelay,
                                          pure.maxDelay, FALSE) :
                   pure.result <= next

(* a call whose exponential is above the cap, and the call before it that  *)
(* is below it                                                             *)
C16_Witness ==
    /\ pure.fn = "calculateDelay" /\ pure.applied /\ ~pure.withJitter
    /\ pure.baseDelay * 2^pure.attempt > pure.maxDelay
    /\ pure.baseDelay * 2^(pure.attempt - 1) < pure.maxDelay
    /\ pure.result = pure.maxDelay

(* C17: with jitter every delay d that calculateDelay returns satisfies    *)
(* 0 <= d <= min(baseDelay * 2^attempt, maxDelay), hence d <= maxDelay.    *)
C17_JitterWithinCap ==
    (pure.fn = "calculateDelay" /\ pure.applied /\ pure.withJitter) =>
        /\ 0 <= pure.result
        /\ pure.result <= pure.baseDelay * 2^pure.attempt
        /\ pure.result <= pure.maxDelay

(* the largest jittered delay of a capped call *)
C17_Witness ==
    /\ pure.fn = "calculateDelay" /\ pure.applied /\ pure.withJitter
    /\ pure.baseDelay * 2^pure.attempt > pure.maxDelay
    /\ pure.result = pure.maxDelay - 1
    /\ pure.result > 0

(* C18: isRetryableError returns true exactly when the error's status is   *)
(* in retryableStatuses, or its code is in retryableErrors, or its name is *)
(* TimeoutError or AbortError, and false otherwise.                        *)
C18_ClassifierRules ==
    (pure.fn = "isRetryableError" /\ pure.applied) =>
        pure.result = ( \/ pure.error.status \in pure.statuses
                        \/ pure.error.code \in pure.errors
                        \/ pure.error.name \in {"TimeoutError", "AbortError"} )

(* an AbortError without status or code is retryable with both sets empty *)
C18_Witness ==
    /\ pure.fn = "isRetryableError" /\ pure.applied
    /\ pure.error = [status |-> 0, code |-> "", name |-> "AbortError"]
    /\ pure.statuses = {} /\ pure.errors = {}
    /\ pure.result = TRUE

(* a step that calls getCircuitBreakerState() *)
C19_ReadStep ==
    GetCircuitBreakerState =>
        /\ UNCHANGED << state, failureCount, successCount, lastFailureTime >>
        /\ Read(snapshot)' = getState
        /\ (snapshot.taken /\ snapshotOf = getState) =>
               Read(snapshot)' = Read(snapshot)

(* the snapshot a caller holds still reads as when it was returned *)
C19_SnapshotKept == snapshot.taken => Read(snapshot) = snapshotOf

(* C19: getCircuitBreakerState() does not change the breaker; calls with   *)
(* no execute completion or reset between them return equal snapshots;    *)
(* and the returned object is a copy, so a later transition of the breaker *)
(* does not alter a snapshot taken earlier.                                *)
C19_SnapshotIsACopy == [][C19_ReadStep]_vars /\ []C19_SnapshotKept

(* a snapshot taken while closed, held while the breaker has opened *)
C19_Witness ==
    /\ snapshot.taken
    /\ Read(snapshot).state = "closed"
    /\ Read(snapshot).failureCount = 0
    /\ state = "open"
    /\ failureCount >= 1

(* the breaker's fields after a step are those of the record b *)
C20_BreakerBecomes(b) ==
    /\ state' = b.state
    /\ failureCount' = b.failureCount
    /\ successCount' = b.successCount
    /\ lastFailureTime' = b.lastFailureTime

(* C20: updateConfig does not affect calls already in flight: a request()  *)
(* started before it completes with the retry settings and the             *)
(* circuit-breaker settings (enabled, failureThreshold, successThreshold,  *)
(* timeout) in force when it started, also for the breaker bookkeeping     *)
(* done when it finishes.                                                  *)
C20_InFlightKeepsConfig ==
    [][ /\ \A upd \in UpdateInputs, c \in Slots :
               (UpdateConfig(upd) /\ InFlight(c)) => calls'[c] = calls[c]
        /\ \A c \in Slots, raw \in FetchOutcomes :
               /\ AttemptFailsLast(c, raw) =>
                      IF calls[c].cbAtStart.enabled
                      THEN C20_BreakerBecomes(
                               onFailure(getState, calls[c].cbAtStart, now))
                      ELSE C20_BreakerBecomes(getState)
               /\ AttemptSucceeds(c, raw) =>
                      IF calls[c].cbAtStart.enabled
                      THEN C20_BreakerBecomes(
                               onSuccess(getState, calls[c].cbAtStart))
                      ELSE C20_BreakerBecomes(getState)
      ]_vars

(* C21: whenever a circuitBreaker override that gives only some keys is    *)
(* merged into a client's configuration (at construction over the          *)
(* defaults, or by updateConfig), only the given keys of the breaker's     *)
(* config change: every other key keeps its default or previous value.     *)
C21_PartialOverrideKeepsRest ==
    \A k \in BreakerKeys :
        /\ k \in DOMAIN lastMerge.over =>
               (k \in DOMAIN cbConfig /\ cbConfig[k] = lastMerge.over[k])
        /\ (k \notin DOMAIN lastMerge.over /\ k \in DOMAIN lastMerge.before) =>
               (k \in DOMAIN cbConfig /\ cbConfig[k] = lastMerge.before[k])

(* the rules the configuration of a client has to meet *)
C22_Valid(cfg, cb) ==
    /\ cfg.maxRetries >= 0
    /\ cfg.baseDelay > 0
    /\ cfg.maxDelay >= cfg.baseDelay
    /\ cb.timeout > 0
    /\ cb.failureThreshold > 0
    /\ cb.successThreshold > 0

(* C22: an invalid configuration (maxDelay < baseDelay, a non-positive     *)
(* baseDelay or open timeout, a negative maxRetries, a non-positive        *)
(* threshold) is rejected when the client is constructed or the config is  *)
(* merged, so no request() ever runs under an invalid configuration.       *)
C22_NoRequestUnderInvalidConfig ==
    \A c \in Slots :
        calls[c].pc # "idle" => C22_Valid(calls[c].eff, calls[c].cbAtStart)

(* the Transport calls of a call that have settled: one per onRetry call   *)
(* (a failure that was retried) and the one that ended the call            *)
C23_Settled(call) ==
    Len(call.onRetryLog) +
        (IF call.pc = "done" /\ call.outcome \in {"response", "error"}
         THEN 1 ELSE 0)

(* a step that starts a further attempt *)
C23_NextAttemptStep ==
    \A c \in Slots :
        ( /\ calls'[c].transportCalls = calls[c].transportCalls + 1
          /\ calls[c].transportCalls >= 1 ) =>
            /\ calls[c].pc = "sleep"
            /\ calls[c].transportCalls = C23_Settled(calls[c])
            /\ calls[c].lastError # NoError
            /\ now >= calls[c].wakeAt
            /\ calls'[c].attempt = calls[c].attempt + 1

(* at most one Transport call of a call has not settled *)
C23_OnePending ==
    \A c \in Slots :
        LET pending == calls[c].transportCalls - C23_Settled(calls[c])
        IN  /\ pending \in {0, 1}
            /\ pending = 1 <=> calls[c].pc = "fetch"

(* C23: within one request() at most one Transport call is in flight at    *)
(* any time: attempt k+1 starts only after attempt k has failed and the    *)
(* backoff sleep following it has finished.                                *)
C23_AttemptsAreSerial == [][C23_NextAttemptStep]_vars /\ []C23_OnePending

(* a third attempt in flight after a sleep that took time *)
C23_Witness ==
    \E c \in Slots :
        /\ calls[c].pc = "fetch"
        /\ calls[c].attempt = 2
        /\ calls[c].transportCalls = 3
        /\ calls[c].wakeAt >= 1
        /\ now >= calls[c].wakeAt

(* C24: once the caller has cancelled an in-progress request() through an  *)
(* external cancellation signal, the Transport call in flight or the       *)
(* pending sleep is aborted and no further Transport attempt is started    *)
(* for that request.                                                       *)
C24_CancelStopsCall ==
    [][ \A c \in Slots :
            (calls[c].cancelled /\ InFlight(c)) =>
                /\ calls'[c].transportCalls = calls[c].transportCalls
                /\ calls'[c].pc # "sleep" ]_vars

(* C25: hooks never gate control flow: what execute/request delivers to    *)
(* the caller and the breaker's bookkeeping are determined by the          *)
(* operation's outcome alone; when the operation succeeds, execute returns *)
(* its result and records no failure (failureCount is not incremented),    *)
(* even if a hook raises.                                                  *)
C25_HooksNeverGate ==
    [][ \A c \in Slots, raw \in FetchOutcomes :
            (AttemptSucceeds(c, raw) /\ ~calls[c].bypassed) =>
                /\ calls'[c].outcome = "response"
                /\ failureCount' = 0
                /\ lastFailureTime' = lastFailureTime ]_vars

(* the events of a call follow attempt 0, onRetry 1, sleep 0, attempt 1,   *)
(* onRetry 2, sleep 1, attempt 2, ...                                      *)
C26_EventOrder ==
    \A c \in Slots :
        LET e == calls[c].events
        IN  /\ \A i \in 1..Len(e) :
                   LET k == (i - 1) \div 3
                   IN  e[i] = IF (i - 1) % 3 = 0
                              THEN [ev |-> "attempt", n |-> k]
                              ELSE IF (i - 1) % 3 = 1
                                   THEN [ev |-> "onRetry", n |-> k + 1]
                                   ELSE [ev |-> "sleep", n |-> k]
            /\ calls[c].pc = "sleep" <=>
                   (Len(e) > 0 /\ e[Len(e)].ev = "sleep")
            /\ calls[c].sleeps =
                   Cardinality({i \in 1..Len(e) : e[i].ev = "sleep"})

(* the sleep after a failed attempt lasts what calculateDelay returns *)
C26_SleepStep ==
    \A c \in Slots :
        (calls[c].pc = "fetch" /\ calls'[c].pc = "sleep") =>
            LET k           == calls[c].attempt
                eff         == calls[c].eff
                delay       == calls'[c].wakeAt - now
                exponential == eff.baseDelay * 2^k
            IN  /\ k < eff.maxRetries
                /\ calls'[c].sleeps = calls[c].sleeps + 1
                /\ delay \in calculateDelay(k, eff.baseDelay, eff.maxDelay,
                                            eff.jitter)
                /\ ~eff.jitter =>
                       delay = IF exponential <= eff.maxDelay
                               THEN exponential ELSE eff.maxDelay

(* C26: after attempt k fails with a retryable error and k < maxRetries,   *)
(* onRetry(k+1, error) is invoked, then exactly one sleep of               *)
(* calculateDelay(k, baseDelay, maxDelay, jitter) is performed (without    *)
(* jitter min(baseDelay * 2^k, maxDelay)), then attempt k+1 starts; no     *)
(* backoff sleep happens at any other point of the request.                *)
C26_RetryThenSleepThenAttempt == [][C26_SleepStep]_vars /\ []C26_EventOrder

(* a call without jitter at its second attempt after sleeping baseDelay *)
C26_Witness ==
    \E c \in Slots :
        /\ ~calls[c].eff.jitter
        /\ calls[c].pc = "fetch"
        /\ calls[c].attempt = 1
        /\ Len(calls[c].events) = 4
        /\ calls[c].wakeAt >= BaseDelay
        /\ now >= calls[c].wakeAt

(* C27: the breaker records one outcome per request(), not per Transport   *)
(* attempt: a request whose attempts all fail raises failureCount by       *)
(* exactly 1 however many attempts it made, and a request that succeeds    *)
(* after failed attempts is recorded as a success (failureCount becomes 0) *)
(* with its failed attempts never counted.                                 *)
C27_OneOutcomePerRequest ==
    [][ \A c \in Slots :
          /\ ( \/ calls[c].pc = "fetch" /\ calls'[c].pc = "sleep"
               \/ calls[c].pc = "sleep" /\ calls'[c].pc = "fetch" ) =>
                 UNCHANGED << state, failureCount, successCount,
                              lastFailureTime >>
          /\ ( /\ calls[c].pc = "fetch" /\ calls'[c].pc = "done"
               /\ ~calls[c].bypassed ) =>
                 failureCount' = IF calls'[c].outcome = "error"
                                 THEN failureCount + 1 ELSE 0 ]_vars

(* three failed attempts of one request counted as one failure *)
C27_Witness ==
    \E c \in Slots :
        /\ calls[c].pc = "done"
        /\ calls[c].outcome = "error"
        /\ ~calls[c].bypassed
        /\ calls[c].transportCalls = 3
        /\ requests = 1
        /\ failureCount = 1

(* C28, as stated: while the breaker is closed, a successful execute sets  *)
(* failureCount to 0 and changes nothing else: state stays closed and      *)
(* successCount and lastFailureTime keep their values.                     *)
C28_AsStated ==
    [][ \A c \in Slots, raw \in FetchOutcomes :
          (AttemptSucceeds(c, raw) /\ ~calls[c].bypassed /\ state = "closed")
          => /\ state' = "closed"
             /\ failureCount' = 0
             /\ successCount' = successCount
             /\ lastFailureTime' = lastFailureTime ]_vars

(* C28, amended: while the breaker is closed, a successful execute sets    *)
(* failureCount to 0 and raises successCount by 1; state stays closed,     *)
(* lastFailureTime keeps its value and no hook is invoked.                 *)
C28_ClosedSuccess ==
    [][ \A c \in Slots, raw \in FetchOutcomes :
          (AttemptSucceeds(c, raw) /\ ~calls[c].bypassed /\ state = "closed")
          => /\ state' = "closed"
             /\ failureCount' = 0
             /\ successCount' = successCount + 1
             /\ lastFailureTime' = lastFailureTime
             /\ UNCHANGED << onCircuitOpenCalls, onCircuitCloseCalls >>
      ]_vars

(* two successes while closed, after a failure that did not open *)
C28_Witness ==
    /\ state = "closed"
    /\ onCircuitOpenCalls = 0
    /\ successCount = 2
    /\ failureCount = 0
    /\ lastFailureTime # NULL

(* C29: an execute call that is rejected with CircuitBreakerOpenError      *)
(* leaves state, failureCount, successCount and lastFailureTime unchanged  *)
(* and invokes no hook; rejected calls do not re-arm or extend the open    *)
(* timeout.                                                                *)
C29_RejectChangesNothing ==
    [][ \A c \in Slots :
          (Request(c) /\ calls'[c].thrown = CircuitBreakerOpenError) =>
              /\ UNCHANGED << state, failureCount, successCount,
                              lastFailureTime, onCircuitOpenCalls,
                              onCircuitCloseCalls, openedAt >>
              /\ \A t \in 0..MaxTime :
                     Gate(getState, cbConfig, t)' = Gate(getState, cbConfig, t)
      ]_vars

(* a call rejected after the failure that opened the circuit at time 0 *)
C29_Witness ==
    \E c \in Slots :
        /\ calls[c].thrown = CircuitBreakerOpenError
        /\ state = "open"
        /\ lastFailureTime = 0
        /\ now >= 1
        /\ requests >= 3

(* C30: under every interleaving of execute and reset calls the state      *)
(* changes only along closed->open, open->half-open, half-open->closed,    *)
(* half-open->open, or to closed by reset(); never closed->half-open, and  *)
(* never open->closed without a reset().                                   *)
C30_TransitionsAllowed ==
    [][ state' # state =>
          \/ state = "closed" /\ state' = "open"
          \/ state = "open" /\ state' = "half-open"
          \/ state = "half-open" /\ state' = "closed"
          \/ state = "half-open" /\ state' = "open"
          \/ Reset /\ state' = "closed" ]_vars

(* closed, open, half-open, closed and open again *)
C30_Witness ==
    /\ state = "open"
    /\ onCircuitOpenCalls = 2
    /\ onCircuitCloseCalls = 1

(* C31: in every reachable state with the breaker enabled and its config   *)
(* unchanged, state = open implies failureCount >= failureThreshold, also  *)
(* when operations started before the circuit opened complete while it is  *)
(* open.                                                                   *)
C31_OpenImpliesThreshold ==
    (cbConfig.enabled /\ state = "open") =>
        failureCount >= cbConfig.failureThreshold

(* C32: the circuit goes from half-open to closed only on successes of     *)
(* operations started while the breaker was half-open: a success of an     *)
(* operation started earlier that completes during half-open does not      *)
(* count toward successThreshold and cannot close the circuit.             *)
C32_OnlyProbesClose ==
    [][ \A c \in Slots, raw \in FetchOutcomes :
          ( /\ AttemptSucceeds(c, raw)
            /\ ~calls[c].bypassed
            /\ ~calls[c].probe
            /\ state = "half-open" )
          => (state' = "half-open" /\ successCount' = successCount) ]_vars

(* C33: every request() eventually completes (returns a response or raises *)
(* an error), provided every Transport attempt eventually succeeds or      *)
(* fails and every backoff sleep eventually ends: the retry loop cannot    *)
(* run forever for any finite maxRetries.                                  *)
C33_RequestCompletes ==
    \A c \in Slots : InFlight(c) ~> (calls[c].pc = "done")

(* a request that completed after using every retry, its sleeps having     *)
(* run past the end of the clock's free range                              *)
C33_Witness ==
    \E c \in Slots :
        /\ calls[c].pc = "done"
        /\ calls[c].outcome = "error"
        /\ calls[c].eff.maxRetries = MaxRetries
        /\ calls[c].sleeps = MaxRetries
        /\ now > MaxTime

====
